---- MODULE Spec2Model ----
(***************************************************************************)
(* A model of datasets/utils/py_utils.py: the nested mapper (map_nested,   *)
(* _single_map_nested), the deterministic pickler (Pickler.memoize,        *)
(* _save_code, dumps with _no_cache_fields) and the encoder registry       *)
(* (pklregister).                                                          *)
(***************************************************************************)
EXTENDS Integers, Sequences, FiniteSets, TLC

\* ---------------------------------------------------------------------
\* Bounds
\* ---------------------------------------------------------------------
MaxLen == 3
MaxProc == 2
MaxParLen == 5
MaxParProc == 3

\* ---------------------------------------------------------------------
\* Nested values.  Every value is a record of one shape, so that any two
\* values can be compared: kind is the Python type, keys the keys of a
\* dict (insertion order), items the dict values or sequence elements,
\* val the number of an int.  A raised exception is a value whose kind is
\* the exception's class.
\* ---------------------------------------------------------------------
Val(kind, keys, items, val) ==
    [kind |-> kind, keys |-> keys, items |-> items, val |-> val]

IntV(n) == Val("int", <<>>, <<>>, n)

NoneV == Val("None", <<>>, <<>>, 0)

Dict(ks, vs) == Val("dict", ks, vs, 0)

List(vs) == Val("list", <<>>, vs, 0)

Tuple(vs) == Val("tuple", <<>>, vs, 0)

Array(vs) == Val("ndarray", <<>>, vs, 0)

Raise(exc) == Val(exc, <<>>, <<>>, 0)

Unset == Val("unset", <<>>, <<>>, 0)

ExcKinds == {"TypeError", "ValueError"}

IsErr(v) == v.kind \in ExcKinds

SeqKinds == {"list", "tuple", "ndarray"}

Min(a, b) == IF a < b THEN a ELSE b

\* the first exception of a sequence of results, in sequence order
FirstErr(vs) ==
    vs[CHOOSE i \in 1..Len(vs) : IsErr(vs[i]) /\ \A j \in 1..(i - 1) : ~IsErr(vs[j])]

AnyErr(vs) == \E i \in 1..Len(vs) : IsErr(vs[i])

\* seq[start:end] of Python, 0-based, for 0 <= start: both ends are clamped
Slice(s, start, end) ==
    SubSeq(s, Min(start, Len(s)) + 1, Min(end, Len(s)))

RECURSIVE Concat(_)
Concat(ss) == IF ss = <<>> THEN <<>> ELSE Head(ss) \o Concat(Tail(ss))

\* np.array(mapped): a list, tuple or array among the elements becomes a
\* row of the array; any other element is kept as it is
RECURSIVE NpArray(_)
NpArray(mapped) ==
    Array([i \in 1..Len(mapped) |->
             IF mapped[i].kind \in SeqKinds THEN NpArray(mapped[i].items) ELSE mapped[i]])

\* ---------------------------------------------------------------------
\* The functions given to map_nested
\* ---------------------------------------------------------------------
Functions == {"identity", "wrap", "incr"}

\* function(x) for: lambda x: x;  lambda x: [x];  lambda x: x + 1
Apply(f, v) ==
    CASE f = "identity" -> v
      [] f = "wrap" -> List(<<v>>)
      [] OTHER ->
           IF v.kind = "int" THEN IntV(v.val + 1)
           ELSE IF v.kind = "ndarray" /\ \A i \in 1..Len(v.items) : v.items[i].kind = "int"
                THEN Array([i \in 1..Len(v.items) |-> IntV(v.items[i].val + 1)])
                ELSE Raise("TypeError")

\* `for obj in proc_res`: the elements of a sequence, the keys of a dict,
\* TypeError for a value that is not iterable
Iter(v) ==
    CASE v.kind \in SeqKinds -> v.items
      [] v.kind = "dict" -> [i \in 1..Len(v.keys) |-> IntV(v.keys[i])]
      [] OTHER -> <<Raise("TypeError")>>

\* ---------------------------------------------------------------------
\* map_nested
\* ---------------------------------------------------------------------
Options == [dict_only : BOOLEAN, map_list : BOOLEAN, map_tuple : BOOLEAN, map_numpy : BOOLEAN]

TypesOf(o) ==
    IF o.dict_only THEN {}
    ELSE (IF o.map_list THEN {"list"} ELSE {})
         \cup (IF o.map_tuple THEN {"tuple"} ELSE {})
         \cup (IF o.map_numpy THEN {"ndarray"} ELSE {})

IsTraversed(v, types) == v.kind = "dict" \/ v.kind \in types

\* Rebuild with a tuple returned as a list
Rebuild_tupleAsList(data_struct, mapped) ==
    CASE data_struct.kind = "dict" ->
           Dict(SubSeq(data_struct.keys, 1, Min(Len(data_struct.keys), Len(mapped))),
                SubSeq(mapped, 1, Min(Len(data_struct.keys), Len(mapped))))
      [] data_struct.kind \in {"list", "tuple"} -> List(mapped)
      [] OTHER -> NpArray(mapped)

\* the container of the kind of data_struct rebuilt around mapped
Rebuild(data_struct, mapped) ==
    CASE data_struct.kind = "dict" ->
           Dict(SubSeq(data_struct.keys, 1, Min(Len(data_struct.keys), Len(mapped))),
                SubSeq(mapped, 1, Min(Len(data_struct.keys), Len(mapped))))
      [] data_struct.kind = "list" -> List(mapped)
      [] data_struct.kind = "tuple" -> Tuple(mapped)
      [] OTHER -> NpArray(mapped)

RECURSIVE _single_map_nested(_, _, _)
_single_map_nested(f, data_struct, types) ==
    IF ~IsTraversed(data_struct, types) THEN Apply(f, data_struct)
    ELSE LET mapped == [i \in 1..Len(data_struct.items) |->
                          _single_map_nested(f, data_struct.items[i], types)]
         IN  IF AnyErr(mapped) THEN FirstErr(mapped) ELSE Rebuild(data_struct, mapped)

\* list(data_struct.values()) of a dict, data_struct itself otherwise
Iterable(data_struct) ==
    IF data_struct.kind = "dict" THEN List(data_struct.items) ELSE data_struct

\* ChunkStart without the remainder given to the first chunks
ChunkStart_noRemainder(n, num_proc, index) ==
    (n \div num_proc) * index

\* start = div * index + min(index, mod)
ChunkStart(n, num_proc, index) ==
    (n \div num_proc) * index + Min(index, n % num_proc)

\* ChunkEnd with the extra leaf given to one chunk too many
ChunkEnd_offByOne(n, num_proc, index) ==
    ChunkStart(n, num_proc, index) + (n \div num_proc) + (IF index <= n % num_proc THEN 1 ELSE 0)

\* end = start + div + (1 if index < mod else 0)
ChunkEnd(n, num_proc, index) ==
    ChunkStart(n, num_proc, index) + (n \div num_proc) + (IF index < n % num_proc THEN 1 ELSE 0)

\* split_kwds[index + 1] is the entry of worker index: the slice
\* iterable[start:end], with the start and end it was cut at
SplitKwds(iterable, num_proc) ==
    [k \in 1..num_proc |->
       LET start == ChunkStart(Len(iterable.items), num_proc, k - 1)
           end == ChunkEnd(Len(iterable.items), num_proc, k - 1)
       IN  [index |-> k - 1, start |-> start, end |-> end,
            chunk |-> [iterable EXCEPT !.items = Slice(iterable.items, start, end)]]]

\* sum(len(i[1]) for i in split_kwds)
RECURSIVE SumLen(_)
SumLen(split_kwds) ==
    IF split_kwds = <<>> THEN 0
    ELSE Len(Head(split_kwds).chunk.items) + SumLen(Tail(split_kwds))

\* mapped = [obj for proc_res in mapped for obj in proc_res]
Unpack(results) ==
    Concat([k \in 1..Len(results) |-> Iter(results[k])])

\* num_proc is None -> 1
EffectiveProc(num_proc) == IF num_proc.none THEN 1 ELSE num_proc.n

\* IsSequential that sends as many leaves as workers to the pool
IsSequential_strict(n, num_proc) == num_proc <= 1 \/ n < num_proc

\* num_proc <= 1 or len(iterable) <= num_proc
IsSequential(n, num_proc) == num_proc <= 1 \/ n <= num_proc

\* pool.map(_single_map_nested, split_kwds): the results in worker order,
\* or the exception of a worker
PoolMap(f, split_kwds, types) ==
    [k \in 1..Len(split_kwds) |-> _single_map_nested(f, split_kwds[k].chunk, types)]

\* the sequential path: the list comprehension over iterable, then the
\* container rebuilt
SequentialResult(f, data_struct, types) ==
    LET iterable == Iterable(data_struct)
        mapped == [i \in 1..Len(iterable.items) |->
                     _single_map_nested(f, iterable.items[i], types)]
    IN  IF AnyErr(mapped) THEN FirstErr(mapped) ELSE Rebuild(data_struct, mapped)

\* PoolGetResult that drops the chunks that raised and returns the rest
PoolGetResult_partial(data_struct, results, pool_exc) ==
    LET mapped == Unpack(SelectSeq(results, LAMBDA r : ~IsErr(r)))
    IN  IF AnyErr(mapped) THEN FirstErr(mapped) ELSE Rebuild(data_struct, mapped)

\* what follows pool.map: pool_exc is the exception pool.map raises (Unset
\* when no worker raised); otherwise the results are unpacked in worker
\* order and the container is rebuilt
PoolGetResult(data_struct, results, pool_exc) ==
    IF pool_exc # Unset THEN pool_exc
    ELSE LET mapped == Unpack(results)
         IN  IF AnyErr(mapped) THEN FirstErr(mapped) ELSE Rebuild(data_struct, mapped)

map_nested(f, data_struct, o, num_proc_arg) ==
    LET types == TypesOf(o)
        iterable == Iterable(data_struct)
        n == Len(iterable.items)
        num_proc == EffectiveProc(num_proc_arg)
    IN  IF ~IsTraversed(data_struct, types) THEN Apply(f, data_struct)
        ELSE IF IsSequential(n, num_proc) THEN SequentialResult(f, data_struct, types)
        ELSE LET split_kwds == SplitKwds(iterable, num_proc)
                 results == PoolMap(f, split_kwds, types)
             IN  IF n # SumLen(split_kwds) THEN Raise("ValueError")
                 ELSE PoolGetResult(data_struct, results,
                                    IF AnyErr(results) THEN FirstErr(results) ELSE Unset)

\* ---------------------------------------------------------------------
\* Inputs of the mapper
\* ---------------------------------------------------------------------
\* keys of a dict in an insertion order that is not the sorted order
KeyAt(i) == IF i % 2 = 1 THEN i + 1 ELSE i - 1

ItemCycle ==
    << IntV(0),
       List(<<IntV(1), IntV(2)>>),
       Tuple(<<IntV(3)>>),
       Dict(<<2, 1>>, <<IntV(4), IntV(5)>>),
       Array(<<IntV(6), IntV(7)>>),
       NoneV >>

ItemAt(offset, i) == ItemCycle[((offset + i - 1) % Len(ItemCycle)) + 1]

Container(kind, n, offset) ==
    CASE kind = "dict" -> Dict([i \in 1..n |-> KeyAt(i)], [i \in 1..n |-> ItemAt(offset, i)])
      [] kind = "list" -> List([i \in 1..n |-> ItemAt(offset, i)])
      [] kind = "tuple" -> Tuple([i \in 1..n |-> ItemAt(offset, i)])
      [] OTHER -> Array([i \in 1..n |-> IntV(offset + i)])

DataStructs ==
    {Container(kind, n, offset) :
        kind \in {"dict"} \cup SeqKinds, n \in 0..MaxLen, offset \in 0..(Len(ItemCycle) - 1)}
    \cup {IntV(0), NoneV}

NumProcs == {[none |-> TRUE, n |-> 0]} \cup {[none |-> FALSE, n |-> k] : k \in 0..MaxProc}

\* ---------------------------------------------------------------------
\* State
\* ---------------------------------------------------------------------
VARIABLES
    function,      \* the function given to map_nested
    data_struct,   \* the nested value given to map_nested
    options,       \* dict_only, map_list, map_tuple, map_numpy
    num_proc1,     \* num_proc of the (first) call
    num_proc2,     \* num_proc of the second call
    result1,       \* what the first call returned or raised
    result2,       \* what the second call returned or raised
    mpc,           \* "start", "first" (first call done), "done"
    split_kwds,    \* the entries built for the workers
    wstate,        \* per worker: "pending", "ok", "failed"
    wresult,       \* per worker: what _single_map_nested returned or raised
    wruns,         \* per worker: how many times its chunk was run
    pool_exc,      \* the first exception a worker raised, Unset if none
    ppc,           \* "call", "pool", "returned", "raised"
    presult,       \* the value returned or the exception raised by the call
    elems,         \* pickling: type and content of each element of the list
    ids,           \* per run: the id() of each element of the list
    pos,           \* per run: how many elements were saved
    memo,          \* per run: the ids in the memo, in the order of their index
    memoized,      \* per run: the ids memoize() was called with
    out,           \* per run: the opcodes written
    kpc,           \* per run: "new", "saving", "done"
    code,          \* per run: the code object given to _save_code
    enc,           \* per run: the arguments _save_code gives to save_reduce
    obj,           \* the object given to dumps
    cache0,        \* the cache attribute of obj when dumps was called
    original,      \* the local `original` of temporary_assignment
    at,            \* the yield _no_cache_fields is suspended at
    steps,         \* how many steps of dump() have run
    seen,          \* the cache entries dump() has read
    raised,        \* the exception dumps raised, "none" if none
    dpc,           \* "call", "encoding", "returned", "raised"
    dispatch,      \* Pickler.dispatch: a set of <<type, encoder>> items
    dispatch0,     \* Pickler.dispatch as copied from dill
    reglog,        \* the registrations made, oldest first
    thrown,        \* the exception dump() raised inside dumps, "none" if none
    seq_i,         \* sequential path: how many top-level leaves were mapped
    calls,         \* the arguments the function was called with, in order
    seq_mapped,    \* the results of the leaves mapped so far
    seq_result,    \* the value returned or the exception raised by the call
    seq_pc,        \* "call", "sequential", "parallel", "returned", "raised"
    dicts,         \* the mappings given to zip_dict, in argument order
    chain_pos,     \* how many keys of chain(*dicts) were consumed
    zseen,         \* the set `seen` of unique_values
    yielded,       \* the pairs zip_dict has yielded, in order
    zpc,           \* "iterating", "exhausted", "raised"
    ctor_data,     \* the data given to NestedDataStructure(data)
    self_data,     \* NestedDataStructure.data
    flat_result,   \* what flatten() returned or raised
    fpc,           \* "new", "constructed", "returned", "raised"
    nmd,           \* the NonMutableDict: a set of <<key, value>> items
    first_bound,   \* the value each key was first bound to
    last_op,       \* the last operation and whether it raised
    nops,          \* how many operations were made
    fn,            \* the function given to save_function and the pickler flags
    ctor_globs,    \* the globals mapping given to _create_function
    postproc,      \* the deferred _setitems steps written with the function
    loaded,        \* the names in the globals of the decoded function
    fnpc           \* "call", "saved", "loaded"

inputVars == <<function, data_struct, options, num_proc1>>

mapVars == <<num_proc2, result1, result2, mpc>>

parVars == <<split_kwds, wstate, wresult, wruns, pool_exc, ppc, presult>>

pickleVars == <<elems, ids, pos, memo, memoized, out, kpc>>

codeVars == <<code, enc>>

dumpsVars == <<obj, cache0, original, at, steps, seen, raised, dpc, thrown>>

regVars == <<dispatch, dispatch0, reglog>>

seqVars == <<seq_i, calls, seq_mapped, seq_result, seq_pc>>

zipVars == <<dicts, chain_pos, zseen, yielded, zpc>>

flatVars == <<ctor_data, self_data, flat_result, fpc>>

nmdVars == <<nmd, first_bound, last_op, nops>>

funcVars == <<fn, ctor_globs, postproc, loaded, fnpc>>

vars == <<inputVars, mapVars, parVars, pickleVars, codeVars, dumpsVars, regVars,
          seqVars, zipVars, flatVars, nmdVars, funcVars>>

earlierVars == <<mapVars, parVars, pickleVars, codeVars, dumpsVars, regVars>>

notMap == <<parVars, pickleVars, codeVars, dumpsVars, regVars,
            seqVars, zipVars, flatVars, nmdVars, funcVars>>

notPar == <<mapVars, pickleVars, codeVars, dumpsVars, regVars,
            seqVars, zipVars, flatVars, nmdVars, funcVars>>

notPickle == <<inputVars, mapVars, parVars, codeVars, dumpsVars, regVars,
               seqVars, zipVars, flatVars, nmdVars, funcVars>>

notCode == <<inputVars, mapVars, parVars, pickleVars, dumpsVars, regVars,
             seqVars, zipVars, flatVars, nmdVars, funcVars>>

notDumps == <<inputVars, mapVars, parVars, pickleVars, codeVars, regVars,
              seqVars, zipVars, flatVars, nmdVars, funcVars>>

notReg == <<inputVars, mapVars, parVars, pickleVars, codeVars, dumpsVars,
            seqVars, zipVars, flatVars, nmdVars, funcVars>>

notSeq == <<earlierVars, zipVars, flatVars, nmdVars, funcVars>>

notZip == <<inputVars, earlierVars, seqVars, flatVars, nmdVars, funcVars>>

notFlat == <<inputVars, earlierVars, seqVars, zipVars, nmdVars, funcVars>>

notNmd == <<inputVars, earlierVars, seqVars, zipVars, flatVars, funcVars>>

notFunc == <<inputVars, earlierVars, seqVars, zipVars, flatVars, nmdVars>>

InputIdle ==
    /\ function = "identity"
    /\ data_struct = Unset
    /\ options = [dict_only |-> FALSE, map_list |-> TRUE, map_tuple |-> FALSE, map_numpy |-> FALSE]
    /\ num_proc1 = [none |-> TRUE, n |-> 0]

PickleIdle ==
    /\ elems = <<>>
    /\ ids = <<>>
    /\ pos = <<>>
    /\ memo = <<>>
    /\ memoized = <<>>
    /\ out = <<>>
    /\ kpc = <<>>

CodeIdle ==
    /\ code = <<>>
    /\ enc = <<>>

NoCache == [kind |-> "absent", oid |-> 0, entries |-> {}]

DumpsIdle ==
    /\ obj = [is_tokenizer |-> FALSE, attr_raises |-> FALSE, cache |-> NoCache]
    /\ cache0 = NoCache
    /\ original = NoCache
    /\ at = "none"
    /\ steps = 0
    /\ seen = {}
    /\ raised = "none"
    /\ dpc = "idle"
    /\ thrown = "none"

RegIdle ==
    /\ dispatch = {}
    /\ dispatch0 = {}
    /\ reglog = <<>>

MapIdle ==
    /\ num_proc2 = [none |-> TRUE, n |-> 0]
    /\ result1 = Unset
    /\ result2 = Unset
    /\ mpc = "idle"

ParIdle ==
    /\ split_kwds = <<>>
    /\ wstate = <<>>
    /\ wresult = <<>>
    /\ wruns = <<>>
    /\ pool_exc = Unset
    /\ ppc = "idle"
    /\ presult = Unset

SeqIdle ==
    /\ seq_i = 0
    /\ calls = <<>>
    /\ seq_mapped = <<>>
    /\ seq_result = Unset
    /\ seq_pc = "idle"

ZipIdle ==
    /\ dicts = <<>>
    /\ chain_pos = 0
    /\ zseen = {}
    /\ yielded = <<>>
    /\ zpc = "idle"

FlatIdle ==
    /\ ctor_data = Unset
    /\ self_data = Unset
    /\ flat_result = Unset
    /\ fpc = "idle"

NmdIdle ==
    /\ nmd = {}
    /\ first_bound = {}
    /\ last_op = [overwrite |-> FALSE, raised |-> FALSE, before |-> {}]
    /\ nops = 0

FuncIdle ==
    /\ fn = <<>>
    /\ ctor_globs = [oid |-> "none", keys |-> <<>>]
    /\ postproc = <<>>
    /\ loaded = {}
    /\ fnpc = "idle"

\* the subsystems a specification does not run
IdleBut(which) ==
    /\ IF which \in {"map", "par", "seq"} THEN TRUE ELSE InputIdle
    /\ IF which = "seq" THEN TRUE ELSE SeqIdle
    /\ IF which = "zip" THEN TRUE ELSE ZipIdle
    /\ IF which = "flat" THEN TRUE ELSE FlatIdle
    /\ IF which = "nmd" THEN TRUE ELSE NmdIdle
    /\ IF which = "func" THEN TRUE ELSE FuncIdle
    /\ IF which = "map" THEN TRUE ELSE MapIdle
    /\ IF which = "par" THEN TRUE ELSE ParIdle
    /\ IF which = "pickle" THEN TRUE ELSE PickleIdle
    /\ IF which = "code" THEN TRUE ELSE CodeIdle
    /\ IF which = "dumps" THEN TRUE ELSE DumpsIdle
    /\ IF which = "reg" THEN TRUE ELSE RegIdle

\* ---------------------------------------------------------------------
\* SpecMap: two calls of map_nested on the same arguments, with two
\* worker counts
\* ---------------------------------------------------------------------
InitMap ==
    /\ function \in Functions
    /\ data_struct \in DataStructs
    /\ options \in Options
    /\ num_proc1 \in NumProcs
    /\ num_proc2 \in NumProcs
    /\ result1 = Unset
    /\ result2 = Unset
    /\ mpc = "start"
    /\ IdleBut("map")

CallFirst ==
    /\ mpc = "start"
    /\ result1' = map_nested(function, data_struct, options, num_proc1)
    /\ mpc' = "first"
    /\ UNCHANGED <<inputVars, num_proc2, result2, notMap>>

CallSecond ==
    /\ mpc = "first"
    /\ result2' = map_nested(function, data_struct, options, num_proc2)
    /\ mpc' = "done"
    /\ UNCHANGED <<inputVars, num_proc2, result1, notMap>>

NextMap == CallFirst \/ CallSecond

SpecMap == InitMap /\ [][NextMap]_vars

\* ---------------------------------------------------------------------
\* SpecPar: one call of map_nested, the workers of the pool running their
\* chunks in any order
\* ---------------------------------------------------------------------
ParStructs ==
    {Container(kind, n, offset) :
        kind \in {"dict"} \cup SeqKinds, n \in 0..MaxParLen, offset \in 0..(Len(ItemCycle) - 1)}
    \cup {IntV(0)}

InitPar ==
    /\ function \in Functions
    /\ data_struct \in ParStructs
    /\ options \in Options
    /\ num_proc1 \in {[none |-> FALSE, n |-> k] : k \in 1..MaxParProc}
    /\ IdleBut("par")
    /\ split_kwds = <<>>
    /\ wstate = <<>>
    /\ wresult = <<>>
    /\ wruns = <<>>
    /\ pool_exc = Unset
    /\ ppc = "call"
    /\ presult = Unset

Finish(r) ==
    /\ presult' = r
    /\ ppc' = IF IsErr(r) THEN "raised" ELSE "returned"

\* lines 343-344: data_struct is not traversed
Singleton ==
    /\ ppc = "call"
    /\ ~IsTraversed(data_struct, TypesOf(options))
    /\ Finish(Apply(function, data_struct))
    /\ UNCHANGED <<inputVars, notPar, split_kwds, wstate, wresult, wruns, pool_exc>>

\* lines 351-355 and 384-392: the sequential path
SeqMap ==
    /\ ppc = "call"
    /\ IsTraversed(data_struct, TypesOf(options))
    /\ IsSequential(Len(Iterable(data_struct).items), EffectiveProc(num_proc1))
    /\ Finish(SequentialResult(function, data_struct, TypesOf(options)))
    /\ UNCHANGED <<inputVars, notPar, split_kwds, wstate, wresult, wruns, pool_exc>>

\* lines 357-370: the splits are built and their lengths are summed
Split ==
    /\ ppc = "call"
    /\ IsTraversed(data_struct, TypesOf(options))
    /\ ~IsSequential(Len(Iterable(data_struct).items), EffectiveProc(num_proc1))
    /\ LET kwds == SplitKwds(Iterable(data_struct), EffectiveProc(num_proc1))
       IN  /\ split_kwds' = kwds
           /\ wstate' = [k \in 1..Len(kwds) |-> "pending"]
           /\ wresult' = [k \in 1..Len(kwds) |-> Unset]
           /\ wruns' = [k \in 1..Len(kwds) |-> 0]
           /\ IF Len(Iterable(data_struct).items) # SumLen(kwds)
              THEN Finish(Raise("ValueError"))
              ELSE ppc' = "pool" /\ presult' = presult
    /\ UNCHANGED <<inputVars, notPar, pool_exc>>

\* a worker of the pool runs _single_map_nested on its entry
WorkerRun(k) ==
    /\ ppc = "pool"
    /\ wstate[k] = "pending"
    /\ LET r == _single_map_nested(function, split_kwds[k].chunk, TypesOf(options))
       IN  /\ wresult' = [wresult EXCEPT ![k] = r]
           /\ wstate' = [wstate EXCEPT ![k] = IF IsErr(r) THEN "failed" ELSE "ok"]
           /\ pool_exc' = IF IsErr(r) /\ pool_exc = Unset THEN r ELSE pool_exc
    /\ wruns' = [wruns EXCEPT ![k] = @ + 1]
    /\ UNCHANGED <<inputVars, notPar, split_kwds, ppc, presult>>

Workers == \E k \in 1..Len(wstate) : WorkerRun(k)

\* lines 378-392: pool.map returns or raises once every entry was run
PoolGet ==
    /\ ppc = "pool"
    /\ \A k \in 1..Len(wstate) : wstate[k] # "pending"
    /\ Finish(PoolGetResult(data_struct, wresult, pool_exc))
    /\ UNCHANGED <<inputVars, notPar, split_kwds, wstate, wresult, wruns, pool_exc>>

NextPar ==
    \/ Singleton
    \/ SeqMap
    \/ Split
    \/ Workers
    \/ PoolGet

SpecPar == InitPar /\ [][NextPar]_vars

\* ---------------------------------------------------------------------
\* Properties of the mapper
\* ---------------------------------------------------------------------
\* the call of SpecMap numbered c took the parallel path
TookParallel(num_proc) ==
    /\ IsTraversed(data_struct, TypesOf(options))
    /\ ~IsSequential(Len(Iterable(data_struct).items), EffectiveProc(num_proc))

\* C1: two calls of map_nested that differ only in num_proc return the
\* same value (or both raise the same exception), for every function,
\* nested value and setting of the options
C1_SameResultAnyNumProc == mpc = "done" => result1 = result2

\* res has the shape of inp: at every traversed level the same kind of
\* container, the same keys in the same order, the same length
RECURSIVE SameShape(_, _, _)
SameShape(inp, res, types) ==
    IF ~IsTraversed(inp, types) THEN TRUE
    ELSE /\ res.kind = inp.kind
         /\ res.keys = inp.keys
         /\ Len(res.items) = Len(inp.items)
         /\ \A i \in 1..Len(inp.items) : SameShape(inp.items[i], res.items[i], types)

\* C2: a value returned by map_nested has the shape of data_struct, for
\* every function, option setting and worker count
C2_SameShape ==
    /\ (mpc \in {"first", "done"} /\ ~IsErr(result1))
          => SameShape(data_struct, result1, TypesOf(options))
    /\ (mpc = "done" /\ ~IsErr(result2))
          => SameShape(data_struct, result2, TypesOf(options))

\* C3: map_nested with the identity function returns a value equal to
\* data_struct, for every option setting and worker count
C3_IdentityReturnsEqual ==
    /\ (mpc \in {"first", "done"} /\ function = "identity") => result1 = data_struct
    /\ (mpc = "done" /\ function = "identity") => result2 = data_struct

\* a nested dict went through the pool with the identity function
C3_Witness ==
    /\ mpc = "done"
    /\ function = "identity"
    /\ TookParallel(num_proc2)
    /\ ~TookParallel(num_proc1)
    /\ data_struct.kind = "tuple"
    /\ \E i \in 1..Len(data_struct.items) : data_struct.items[i].kind = "dict"
    /\ result2 = data_struct

SplitDone == ppc \in {"pool", "returned", "raised"} /\ split_kwds # <<>>

LeafCount == Len(Iterable(data_struct).items)

\* C4: in the parallel path exactly num_proc chunks are built, chunk i has
\* n div w + 1 leaves when i < n mod w and n div w leaves otherwise, the
\* sizes sum to n and any two sizes differ by at most 1
C4_ChunkSizes ==
    SplitDone =>
        LET n == LeafCount
            w == EffectiveProc(num_proc1)
            size(k) == Len(split_kwds[k].chunk.items)
        IN  /\ n > w /\ w >= 2
            /\ Len(split_kwds) = w
            /\ \A k \in 1..w : size(k) = (n \div w) + (IF k - 1 < n % w THEN 1 ELSE 0)
            /\ SumLen(split_kwds) = n
            /\ \A k1, k2 \in 1..w : size(k1) - size(k2) <= 1

\* chunks of two different sizes were built for three workers
C4_Witness ==
    /\ ppc = "pool"
    /\ Len(split_kwds) = 3
    /\ LeafCount % 3 # 0
    /\ Len(split_kwds[1].chunk.items) = Len(split_kwds[3].chunk.items) + 1

\* C5: the chunks are contiguous and adjacent: the first starts at leaf 0,
\* each starts where the previous one ends, the last ends at leaf n, each
\* is the slice between its start and its end, so the chunks concatenated
\* in worker order are the leaf sequence; with the identity function the
\* results concatenated in worker order give back data_struct
C5_ChunksContiguous ==
    /\ SplitDone =>
        LET leaves == Iterable(data_struct).items
            w == Len(split_kwds)
        IN  /\ split_kwds[1].start = 0
            /\ \A k \in 1..(w - 1) : split_kwds[k + 1].start = split_kwds[k].end
            /\ split_kwds[w].end = Len(leaves)
            /\ \A k \in 1..w :
                  /\ split_kwds[k].index = k - 1
                  /\ split_kwds[k].chunk.items =
                        [i \in 1..(split_kwds[k].end - split_kwds[k].start) |->
                            leaves[split_kwds[k].start + i]]
            /\ Concat([k \in 1..w |-> split_kwds[k].chunk.items]) = leaves
    /\ (SplitDone /\ ppc = "returned" /\ function = "identity") => presult = data_struct

\* the last worker finished first and the call returned the leaves in order
C5_Witness ==
    /\ ppc = "returned"
    /\ Len(split_kwds) = 3
    /\ LeafCount = 5
    /\ function = "identity"
    /\ presult = data_struct

\* C9: in the parallel path, if the function raises in a worker the call
\* raises: no value is returned, the results of the other chunks
\* included, and no chunk is run a second time
C9_AllOrNothing ==
    /\ (ppc \in {"returned", "raised"} /\ \E k \in 1..Len(wstate) : wstate[k] = "failed")
          => (ppc = "raised" /\ IsErr(presult) /\ presult = pool_exc)
    /\ \A k \in 1..Len(wruns) : wruns[k] <= 1
    /\ \A k \in 1..Len(wstate) : (wstate[k] = "pending") <=> (wruns[k] = 0)

\* the call raised although a chunk had succeeded
C9_Witness ==
    /\ ppc = "raised"
    /\ \E k \in 1..Len(wstate) : wstate[k] = "failed"
    /\ \E k \in 1..Len(wstate) : wstate[k] = "ok" /\ ~IsErr(wresult[k])

\* ---------------------------------------------------------------------
\* The pickler: dump() of a list, element after element, with the memo of
\* pickle.Pickler and the memoize() of Pickler (lines 435-438).  Two runs
\* "A" and "B" pickle two lists whose elements have the same types and
\* contents and may differ in which elements are one object.
\* ---------------------------------------------------------------------
MaxElems == 3

Runs == {"A", "B"}

ObjTypes == {"str", "bytes", "int"}

Contents == {"x", "y"}

Opcode(op, content, idx) == [op |-> op, content |-> content, idx |-> idx]

\* id() of the list that is dumped
ListId == 0

InMemo(m, id) == \E i \in 1..Len(m) : m[i] = id

\* the index the memo gives to id: the number of entries that were there
MemoIndex(m, id) == (CHOOSE i \in 1..Len(m) : m[i] = id) - 1

\* memoize() that memoizes text like every other object
memoize_all(type, id, m) ==
    [memo |-> Append(m, id), written |-> <<Opcode("PUT", "", Len(m))>>]

\* Pickler.memoize: the memo after memoize(obj) and the opcodes it writes
memoize(type, id, m) ==
    IF type # "str"
    THEN [memo |-> Append(m, id), written |-> <<Opcode("PUT", "", Len(m))>>]
    ELSE [memo |-> m, written |-> <<>>]

\* the savers of str and bytes write the value and call memoize; the
\* saver of int only writes the value
CallsMemoize(type) == type \in {"str", "bytes"}

ValueOpcode(type) ==
    CASE type = "str" -> "BINUNICODE"
      [] type = "bytes" -> "BINBYTES"
      [] OTHER -> "BININT"

\* Pickler.save(obj): a GET for an object of the memo, otherwise its saver
save(type, content, id, m) ==
    IF InMemo(m, id)
    THEN [memo |-> m, written |-> <<Opcode("GET", "", MemoIndex(m, id))>>, called |-> {}]
    ELSE IF CallsMemoize(type)
         THEN LET mz == memoize(type, id, m)
              IN  [memo |-> mz.memo,
                   written |-> <<Opcode(ValueOpcode(type), content, 0)>> \o mz.written,
                   called |-> {id}]
         ELSE [memo |-> m, written |-> <<Opcode(ValueOpcode(type), content, 0)>>, called |-> {}]

\* ids numbered in the order of their first occurrence
Canonical(idseq) ==
    \A i \in 1..Len(idseq) :
        \/ \E j \in 1..(i - 1) : idseq[j] = idseq[i]
        \/ idseq[i] = 1 + Cardinality({idseq[j] : j \in 1..(i - 1)})

\* one object has one type and one content
WellFormed(tc, idseq) ==
    \A i, j \in 1..Len(idseq) : idseq[i] = idseq[j] => tc[i] = tc[j]

\* the two lists agree on which of their bytes elements are one object
SameSharing(tc, idsA, idsB) ==
    \A i, j \in 1..Len(tc) :
        tc[i].type = "bytes" => ((idsA[i] = idsA[j]) <=> (idsB[i] = idsB[j]))

InitPickle ==
    /\ IdleBut("pickle")
    /\ \E n \in 1..MaxElems :
          /\ elems \in [1..n -> [type : ObjTypes, content : Contents]]
          /\ ids \in [Runs -> {idseq \in [1..n -> 1..n] : Canonical(idseq)}]
    /\ \A r \in Runs : WellFormed(elems, ids[r])
    /\ SameSharing(elems, ids["A"], ids["B"])
    /\ pos = [r \in Runs |-> 0]
    /\ memo = [r \in Runs |-> <<>>]
    /\ memoized = [r \in Runs |-> {}]
    /\ out = [r \in Runs |-> <<>>]
    /\ kpc = [r \in Runs |-> "new"]

\* save_list: EMPTY_LIST, the list is memoized, MARK
DumpStart(r) ==
    /\ kpc[r] = "new"
    /\ LET mz == memoize("list", ListId, memo[r])
       IN  /\ memo' = [memo EXCEPT ![r] = mz.memo]
           /\ out' = [out EXCEPT ![r] = <<Opcode("EMPTY_LIST", "", 0)>> \o mz.written
                                            \o <<Opcode("MARK", "", 0)>>]
    /\ memoized' = [memoized EXCEPT ![r] = @ \cup {ListId}]
    /\ kpc' = [kpc EXCEPT ![r] = "saving"]
    /\ UNCHANGED <<elems, ids, pos, notPickle>>

\* the next element of the list is saved
SaveElement(r) ==
    /\ kpc[r] = "saving"
    /\ pos[r] < Len(elems)
    /\ LET i == pos[r] + 1
           sv == save(elems[i].type, elems[i].content, ids[r][i], memo[r])
       IN  /\ memo' = [memo EXCEPT ![r] = sv.memo]
           /\ out' = [out EXCEPT ![r] = @ \o sv.written]
           /\ memoized' = [memoized EXCEPT ![r] = @ \cup sv.called]
    /\ pos' = [pos EXCEPT ![r] = @ + 1]
    /\ UNCHANGED <<elems, ids, kpc, notPickle>>

\* APPENDS and STOP
DumpEnd(r) ==
    /\ kpc[r] = "saving"
    /\ pos[r] = Len(elems)
    /\ out' = [out EXCEPT ![r] = @ \o <<Opcode("APPENDS", "", 0), Opcode("STOP", "", 0)>>]
    /\ kpc' = [kpc EXCEPT ![r] = "done"]
    /\ UNCHANGED <<elems, ids, pos, memo, memoized, notPickle>>

DumpStarts == \E r \in Runs : DumpStart(r)

SaveElements == \E r \in Runs : SaveElement(r)

DumpEnds == \E r \in Runs : DumpEnd(r)

NextPickle == DumpStarts \/ SaveElements \/ DumpEnds

SpecPickle == InitPickle /\ [][NextPickle]_vars

\* the type of the object with this id in run r
TypeOfId(r, id) ==
    IF id = ListId THEN "list" ELSE elems[CHOOSE i \in 1..Len(elems) : ids[r][i] = id].type

\* C6: two lists whose elements have equal contents are dumped to the
\* same bytes whether their text elements are one object or distinct
\* objects; a text value given to memoize never enters the memo, every
\* other object given to memoize is in the memo under its id
C6_TextNotMemoized ==
    /\ (\A r \in Runs : kpc[r] = "done") => out["A"] = out["B"]
    /\ \A r \in DOMAIN memoized : \A id \in memoized[r] :
          (TypeOfId(r, id) = "str") <=> ~InMemo(memo[r], id)

\* run A dumped one text object twice, run B two equal text objects
C6_Witness ==
    /\ kpc = [r \in Runs |-> "done"]
    /\ \E i, j \in 1..Len(elems) :
          /\ i < j
          /\ elems[i].type = "str"
          /\ ids["A"][i] = ids["A"][j]
          /\ ids["B"][i] # ids["B"][j]
    /\ \E i \in 1..Len(elems) : elems[i].type = "bytes"
    /\ out["A"] = out["B"]

\* ---------------------------------------------------------------------
\* _save_code (lines 521-605): the arguments given to save_reduce for a
\* code object.  A file name is a sequence of characters.  Runs "A" and
\* "B" encode two code objects with equal bodies and names.
\* ---------------------------------------------------------------------
MaxPathLen == 3

MaxLine == 2

PathChars == {"<", "/", "a"}

\* the name of a file or of an origin such as <stdin>: it does not end
\* with the separator
FileNames ==
    {p \in UNION {[1..n -> PathChars] : n \in 1..MaxPathLen} : p[Len(p)] # "/"}

CoNames == {"f", "<lambda>"}

\* obj.co_filename.startswith("<")
StartsWithLt(path) == Len(path) >= 1 /\ path[1] = "<"

\* os.path.basename(path): what follows the last "/"
basename(path) ==
    LET slashes == {i \in 1..Len(path) : path[i] = "/"}
        last == IF slashes = {} THEN 0 ELSE CHOOSE i \in slashes : \A j \in slashes : j <= i
    IN  SubSeq(path, last + 1, Len(path))

\* _save_code that keeps the whole path of the file
_save_code_keepPath(c) ==
    [co_code |-> c.co_code,
     co_filename |-> IF StartsWithLt(c.co_filename) \/ c.co_name = "<lambda>"
                     THEN <<>> ELSE c.co_filename,
     co_name |-> c.co_name,
     co_firstlineno |-> 1,
     co_lnotab |-> c.co_lnotab]

\* the args of pickler.save_reduce(CodeType, args, obj=obj); co_code stands
\* for the fields of the compiled body that are copied as they are
_save_code(c) ==
    [co_code |-> c.co_code,
     co_filename |-> IF StartsWithLt(c.co_filename) \/ c.co_name = "<lambda>"
                     THEN <<>> ELSE basename(c.co_filename),
     co_name |-> c.co_name,
     co_firstlineno |-> 1,
     co_lnotab |-> c.co_lnotab]

NotSaved == [co_code |-> "", co_filename |-> <<>>, co_name |-> "", co_firstlineno |-> 0,
             co_lnotab |-> ""]

InitCode ==
    /\ IdleBut("code")
    /\ \E name \in CoNames, fa, fb \in FileNames, la, lb \in 1..MaxLine :
          code = [r \in Runs |->
                    [co_code |-> "body", co_lnotab |-> "lnotab", co_name |-> name,
                     co_filename |-> IF r = "A" THEN fa ELSE fb,
                     co_firstlineno |-> IF r = "A" THEN la ELSE lb]]
    /\ enc = [r \in Runs |-> NotSaved]

SaveCode(r) ==
    /\ enc[r] = NotSaved
    /\ enc' = [enc EXCEPT ![r] = _save_code(code[r])]
    /\ UNCHANGED <<code, notCode>>

SaveCodes == \E r \in Runs : SaveCode(r)

NextCode == SaveCodes

SpecCode == InitCode /\ [][NextCode]_vars

BothSaved == \A r \in DOMAIN enc : enc[r] # NotSaved

\* C7: two code objects with equal bodies and names that differ only in
\* the file they are defined in (any two paths, file names included) and
\* in their first line number have identical encodings
C7_AnyFileSameEncoding ==
    (DOMAIN enc = Runs /\ BothSaved) => enc["A"] = enc["B"]

\* the two file names are equal once the directories are dropped, or both
\* origins are not files, or the functions are lambdas
SameBaseName ==
    \/ code["A"].co_name = "<lambda>"
    \/ StartsWithLt(code["A"].co_filename) /\ StartsWithLt(code["B"].co_filename)
    \/ /\ ~StartsWithLt(code["A"].co_filename)
       /\ ~StartsWithLt(code["B"].co_filename)
       /\ basename(code["A"].co_filename) = basename(code["B"].co_filename)

\* C7, amended: two code objects with equal bodies and names that differ
\* only in the directory of their file (the base names are equal, or both
\* file names start with "<", or the functions are lambdas) and in their
\* first line number have identical encodings
C7_SameBaseNameSameEncoding ==
    (DOMAIN enc = Runs /\ BothSaved /\ SameBaseName) => enc["A"] = enc["B"]

\* a named function defined in two directories, at two lines, was encoded
C7_Witness ==
    /\ DOMAIN enc = Runs
    /\ BothSaved
    /\ code["A"].co_name = "f"
    /\ code["A"].co_filename # code["B"].co_filename
    /\ code["A"].co_firstlineno # code["B"].co_firstlineno
    /\ ~StartsWithLt(code["A"].co_filename)
    /\ ~StartsWithLt(code["B"].co_filename)
    /\ basename(code["A"].co_filename) = basename(code["B"].co_filename)
    /\ basename(code["A"].co_filename) # <<>>
    /\ enc["A"] = enc["B"]

\* ---------------------------------------------------------------------
\* dumps (lines 464-469) with _no_cache_fields (447-461) and
\* temporary_assignment (150-158).  The cache attribute of obj is absent,
\* a dict (an object with an identity and entries) or a value of another
\* type; dump() runs in steps that read the attribute and may raise.
\* ---------------------------------------------------------------------
MaxEncSteps == 3

CacheKeys == {"k1", "k2"}

Exceptions == {"ImportError", "PicklingError"}

Caches ==
    {NoCache, [kind |-> "other", oid |-> 1, entries |-> {}]}
    \cup {[kind |-> "dict", oid |-> 1, entries |-> e] : e \in SUBSET CacheKeys}

\* the {} of temporary_assignment(obj, "cache", {}): a new, empty dict
FreshDict == [kind |-> "dict", oid |-> 2, entries |-> {}]

\* "PreTrainedTokenizerBase" in the names of the classes of the mro
IsTokenizer(o) == o.is_tokenizer

\* the condition of lines 450-454, for an object whose attribute can be read
HasClearableCache(o) == IsTokenizer(o) /\ o.cache.kind # "absent" /\ o.cache.kind = "dict"

\* the condition of lines 450-454 raises ImportError: hasattr runs the
\* attribute lookup of obj, after the test of the class names
ConditionRaises(o) == IsTokenizer(o) /\ o.attr_raises

\* the exit of temporary_assignment that restores only on a normal exit
temporary_assignment_exit_noFinally(current, orig, raising) ==
    IF raising THEN current ELSE orig

\* the finally of temporary_assignment: setattr(obj, attr, original)
temporary_assignment_exit(current, orig, raising) == orig

\* what dumps raises when dump() raised exc with _no_cache_fields
\* suspended at the yield `where`: an ImportError thrown into the try is
\* caught at line 460 and the generator yields a second time, which
\* contextlib reports as a RuntimeError; any other exception, and any
\* exception thrown at the yield of line 461, leaves the generator
ExitException(where, exc) ==
    IF where \in {"with", "else"} /\ exc = "ImportError" THEN "RuntimeError" ELSE exc

InitDumps ==
    /\ IdleBut("dumps")
    /\ obj \in [is_tokenizer : BOOLEAN, attr_raises : BOOLEAN, cache : Caches]
    /\ cache0 = obj.cache
    /\ original = NoCache
    /\ at = "none"
    /\ steps = 0
    /\ seen = {}
    /\ raised = "none"
    /\ thrown = "none"
    /\ dpc = "call"

\* with _no_cache_fields(obj): up to the yield
EnterNoCacheFields ==
    /\ dpc = "call"
    /\ dpc' = "encoding"
    /\ IF ConditionRaises(obj)
       THEN at' = "except" /\ UNCHANGED <<obj, original>>
       ELSE IF HasClearableCache(obj)
            THEN /\ original' = obj.cache
                 /\ obj' = [obj EXCEPT !.cache = FreshDict]
                 /\ at' = "with"
            ELSE at' = "else" /\ UNCHANGED <<obj, original>>
    /\ UNCHANGED <<cache0, steps, seen, raised, thrown, notDumps>>

\* a step of dump(obj, file): the state of obj is read
EncodeStep ==
    /\ dpc = "encoding"
    /\ steps < MaxEncSteps
    /\ steps' = steps + 1
    /\ seen' = seen \cup obj.cache.entries
    /\ UNCHANGED <<obj, cache0, original, at, raised, thrown, dpc, notDumps>>

\* dump() returns, the with block is left, dumps returns the bytes
EncodeReturn ==
    /\ dpc = "encoding"
    /\ steps >= 1
    /\ obj' = IF at = "with"
              THEN [obj EXCEPT !.cache = temporary_assignment_exit(obj.cache, original, FALSE)]
              ELSE obj
    /\ dpc' = "returned"
    /\ UNCHANGED <<cache0, original, at, steps, seen, raised, thrown, notDumps>>

\* dump() raises exc, which is thrown into _no_cache_fields
EncodeRaise(exc) ==
    /\ dpc = "encoding"
    /\ obj' = IF at = "with"
              THEN [obj EXCEPT !.cache = temporary_assignment_exit(obj.cache, original, TRUE)]
              ELSE obj
    /\ thrown' = exc
    /\ raised' = ExitException(at, exc)
    /\ dpc' = "raised"
    /\ UNCHANGED <<cache0, original, at, steps, seen, notDumps>>

EncodeRaises == \E exc \in Exceptions : EncodeRaise(exc)

NextDumps == EnterNoCacheFields \/ EncodeStep \/ EncodeReturn \/ EncodeRaises

SpecDumps == InitDumps /\ [][NextDumps]_vars

\* obj was recognized as holding a clearable cache when dumps was called
Recognized ==
    /\ obj.is_tokenizer
    /\ ~obj.attr_raises
    /\ cache0.kind = "dict"

\* C8: for an object recognized as holding a clearable cache, the cache
\* attribute is an empty dict as long as the encoding runs (the encoding
\* reads no entry), and once dumps has returned or raised the attribute is
\* the original dict object with its original entries
C8_CacheEmptiedAndRestored ==
    Recognized =>
        /\ dpc = "encoding" => (obj.cache.kind = "dict" /\ obj.cache.entries = {}
                                 /\ obj.cache.oid # cache0.oid)
        /\ seen = {}
        /\ dpc \in {"returned", "raised"} => obj.cache = cache0

\* dumps raised on a tokenizer with a filled cache, after encoding steps
C8_Witness ==
    /\ Recognized
    /\ cache0.entries = CacheKeys
    /\ dpc = "raised"
    /\ steps >= 2
    /\ obj.cache = cache0

\* C17: when the encoding raises an exception, dumps raises that same
\* exception to its caller
C17_SameExceptionRaised == (dpc = "raised" /\ thrown # "none") => raised = thrown

\* ---------------------------------------------------------------------
\* pklregister (lines 472-477) on Pickler.dispatch (line 420), a dict
\* held as the set of its <<type, encoder>> items
\* ---------------------------------------------------------------------
MaxRegs == 3
\* NonMutableDict: the keys and values used, the operations of one
\* history, and the longest iterable of pairs given to update
MaxNmdKeys == 2
MaxOps == 3
MaxPairs == 2
\* save_function: the global names of a function
MaxNames == 3
\* flatten: the deepest chain of calls the interpreter allows
RecursionLimit == 8
\* zip_dict: the most mappings given, and the number of distinct keys
MaxDicts == 2
MaxKeys == 3

RegTypes == {"CodeType", "FunctionType", "Regex"}

Encoders == {"_save_code", "save_function", "_save_regex"}

\* the encoders of dill that Pickler.dispatch starts with
DillEncoder == "dill"

HasEntry(d, t) == \E p \in d : p[1] = t

\* d[t], for a type that has an entry
Lookup(d, t) == (CHOOSE p \in d : p[1] = t)[2]

\* a registration that leaves the encoder of a type that has one
pklregister_keepFirst(d, t, func) ==
    IF HasEntry(d, t) THEN d ELSE d \cup {<<t, func>>}

\* Pickler.dispatch[t] = func
pklregister(d, t, func) ==
    {p \in d : p[1] # t} \cup {<<t, func>>}

InitReg ==
    /\ IdleBut("reg")
    /\ \E ts \in SUBSET RegTypes : dispatch0 = {<<t, DillEncoder>> : t \in ts}
    /\ dispatch = dispatch0
    /\ reglog = <<>>

Register(t, func) ==
    /\ Len(reglog) < MaxRegs
    /\ dispatch' = pklregister(dispatch, t, func)
    /\ reglog' = Append(reglog, <<t, func>>)
    /\ UNCHANGED <<dispatch0, notReg>>

Registers == \E t \in RegTypes, func \in Encoders : Register(t, func)

NextReg == Registers

SpecReg == InitReg /\ [][NextReg]_vars

\* the registrations of the log made for t
RegsOf(t) == {i \in 1..Len(reglog) : reglog[i][1] = t}

LastRegOf(t) == CHOOSE i \in RegsOf(t) : \A j \in RegsOf(t) : j <= i

\* C10: the registry holds at most one encoder per type; the lookup of a
\* registered type returns the encoder of the most recent registration
\* for it; a type that was not registered keeps the entry it started
\* with; no entry is removed
C10_LastRegistrationWins ==
    /\ \A p, q \in dispatch : p[1] = q[1] => p = q
    /\ \A t \in RegTypes :
          IF RegsOf(t) # {}
          THEN HasEntry(dispatch, t) /\ Lookup(dispatch, t) = reglog[LastRegOf(t)][2]
          ELSE \A e \in Encoders \cup {DillEncoder} : (<<t, e>> \in dispatch) <=> (<<t, e>> \in dispatch0)
    /\ \A p \in dispatch0 : HasEntry(dispatch, p[1])

\* a type was registered twice with two encoders, next to an entry of dill
C10_Witness ==
    /\ \E t \in RegTypes :
          /\ Cardinality(RegsOf(t)) >= 2
          /\ \E i \in RegsOf(t) : reglog[i][2] # reglog[LastRegOf(t)][2]
          /\ <<t, DillEncoder>> \in dispatch0
          /\ Lookup(dispatch, t) = reglog[LastRegOf(t)][2]
    /\ \E t \in RegTypes : RegsOf(t) = {} /\ <<t, DillEncoder>> \in dispatch

\* ---------------------------------------------------------------------
\* SpecSeq: one call of map_nested, the sequential path taken leaf after
\* leaf, with the calls of the function recorded in the order they are
\* made
\* ---------------------------------------------------------------------
\* the arguments function is called with while _single_map_nested runs
\* on v, in the order of the calls; a call that raises is the last one
RECURSIVE CallsOf(_, _, _)
CallsOf(f, v, types) ==
    IF ~IsTraversed(v, types) THEN <<v>>
    ELSE LET res == [i \in 1..Len(v.items) |-> _single_map_nested(f, v.items[i], types)]
             stop == IF AnyErr(res)
                     THEN CHOOSE i \in 1..Len(res) :
                             IsErr(res[i]) /\ \A j \in 1..(i - 1) : ~IsErr(res[j])
                     ELSE Len(res)
         IN  Concat([i \in 1..stop |-> CallsOf(f, v.items[i], types)])

InitSeq ==
    /\ IdleBut("seq")
    /\ function \in Functions
    /\ data_struct \in DataStructs
    /\ options \in Options
    /\ num_proc1 \in NumProcs
    /\ seq_i = 0
    /\ calls = <<>>
    /\ seq_mapped = <<>>
    /\ seq_result = Unset
    /\ seq_pc = "call"

\* lines 343-344: data_struct is not traversed
SeqSingleton ==
    /\ seq_pc = "call"
    /\ ~IsTraversed(data_struct, TypesOf(options))
    /\ calls' = <<data_struct>>
    /\ seq_result' = Apply(function, data_struct)
    /\ seq_pc' = IF IsErr(Apply(function, data_struct)) THEN "raised" ELSE "returned"
    /\ UNCHANGED <<inputVars, seq_i, seq_mapped, notSeq>>

\* lines 349-351: the path is chosen
ChoosePath ==
    /\ seq_pc = "call"
    /\ IsTraversed(data_struct, TypesOf(options))
    /\ seq_pc' = IF IsSequential(Len(Iterable(data_struct).items), EffectiveProc(num_proc1))
                 THEN "sequential" ELSE "parallel"
    /\ UNCHANGED <<inputVars, seq_i, calls, seq_mapped, seq_result, notSeq>>

\* lines 352-355: the next element of iterable is mapped
SeqApply ==
    /\ seq_pc = "sequential"
    /\ seq_i < Len(Iterable(data_struct).items)
    /\ LET o == Iterable(data_struct).items[seq_i + 1]
           r == _single_map_nested(function, o, TypesOf(options))
       IN  /\ calls' = calls \o CallsOf(function, o, TypesOf(options))
           /\ IF IsErr(r)
              THEN /\ seq_pc' = "raised"
                   /\ seq_result' = r
                   /\ UNCHANGED <<seq_i, seq_mapped>>
              ELSE /\ seq_i' = seq_i + 1
                   /\ seq_mapped' = Append(seq_mapped, r)
                   /\ UNCHANGED <<seq_pc, seq_result>>
    /\ UNCHANGED <<inputVars, notSeq>>

\* lines 384-392: the container is rebuilt and returned
SeqReturn ==
    /\ seq_pc = "sequential"
    /\ seq_i = Len(Iterable(data_struct).items)
    /\ seq_result' = Rebuild(data_struct, seq_mapped)
    /\ seq_pc' = "returned"
    /\ UNCHANGED <<inputVars, seq_i, calls, seq_mapped, notSeq>>

NextSeq == SeqSingleton \/ ChoosePath \/ SeqApply \/ SeqReturn

SpecSeq == InitSeq /\ [][NextSeq]_vars

\* the leaves of v, depth first and left to right
RECURSIVE Leaves(_, _)
Leaves(v, types) ==
    IF ~IsTraversed(v, types) THEN <<v>>
    ELSE Concat([i \in 1..Len(v.items) |-> Leaves(v.items[i], types)])

\* C11: for a container, the sequential path is taken exactly when
\* num_proc is absent, at most 1, or not smaller than the number of
\* top-level leaves; on that path the function is called on the leaves in
\* input order, each leaf once: the calls made so far are the first
\* leaves, and all the leaves once the call has returned
C11_SequentialInOrder ==
    /\ (seq_pc # "call" /\ IsTraversed(data_struct, TypesOf(options)))
          => ((seq_pc # "parallel")
                <=> (\/ num_proc1.none
                     \/ num_proc1.n <= 1
                     \/ num_proc1.n >= Len(Iterable(data_struct).items)))
    /\ seq_pc \in {"sequential", "returned", "raised"}
          => /\ Len(calls) <= Len(Leaves(data_struct, TypesOf(options)))
             /\ calls = SubSeq(Leaves(data_struct, TypesOf(options)), 1, Len(calls))
    /\ (seq_pc = "returned") => calls = Leaves(data_struct, TypesOf(options))
    /\ (seq_pc = "raised") => IsErr(Apply(function, calls[Len(calls)]))
    /\ \A i \in 1..(Len(calls) - 1) : ~IsErr(Apply(function, calls[i]))

\* a container with as many leaves as workers was mapped sequentially,
\* nested leaves included
C11_Witness ==
    /\ seq_pc = "returned"
    /\ IsTraversed(data_struct, TypesOf(options))
    /\ ~num_proc1.none
    /\ num_proc1.n = 2
    /\ Len(Iterable(data_struct).items) = 2
    /\ Len(calls) > 2
    /\ function = "incr"

\* ---------------------------------------------------------------------
\* SpecZip: the generator zip_dict(*dicts), one next() at a time
\* ---------------------------------------------------------------------
ZipKeys == 1..MaxKeys

\* the key orders a mapping can have
KeySeqs ==
    UNION {{ks \in [1..n -> ZipKeys] : \A i, j \in 1..n : ks[i] = ks[j] => i = j} : n \in 0..MaxKeys}

\* the mapping number j with the keys ks: a sequence of <<key, value>>
ZipDict(j, ks) == [i \in 1..Len(ks) |-> <<ks[i], 10 * j + ks[i]>>]

KeysOf(d) == [i \in 1..Len(d) |-> d[i][1]]

KeySetOf(d) == {d[i][1] : i \in 1..Len(d)}

\* key in d
HasKey(d, key) == key \in KeySetOf(d)

\* d[key] of a key that d has
GetItem(d, key) == d[CHOOSE i \in 1..Len(d) : d[i][1] = key][2]

\* itertools.chain(*dicts): the keys of each mapping in turn
chain(ds) == Concat([j \in 1..Len(ds) |-> KeysOf(ds[j])])

\* unique_values that yields every value
unique_values_noSeen(values, seen_set, after) ==
    IF after < Len(values) THEN after + 1 ELSE 0

\* unique_values resumed after position after: the position of the next
\* value not in seen, 0 when the values are exhausted
unique_values(values, seen_set, after) ==
    LET c == {p \in (after + 1)..Len(values) : values[p] \notin seen_set}
    IN  IF c = {} THEN 0 ELSE CHOOSE p \in c : \A q \in c : p <= q

\* tuple(d[key] for d in dicts)
ValuesOf(ds, key) == [j \in 1..Len(ds) |-> GetItem(ds[j], key)]

InitZip ==
    /\ IdleBut("zip")
    /\ \E n \in 0..MaxDicts : \E ks \in [1..n -> KeySeqs] :
          dicts = [j \in 1..n |-> ZipDict(j, ks[j])]
    /\ chain_pos = 0
    /\ zseen = {}
    /\ yielded = <<>>
    /\ zpc = "iterating"

NextPos == unique_values(chain(dicts), zseen, chain_pos)

\* line 245: the key is in every mapping and is yielded with its values
ZipYield ==
    /\ zpc = "iterating"
    /\ NextPos # 0
    /\ LET key == chain(dicts)[NextPos]
       IN  /\ \A j \in 1..Len(dicts) : HasKey(dicts[j], key)
           /\ yielded' = Append(yielded, <<key, ValuesOf(dicts, key)>>)
           /\ zseen' = zseen \cup {key}
    /\ chain_pos' = NextPos
    /\ UNCHANGED <<dicts, zpc, notZip>>

\* line 245: d[key] raises KeyError
ZipRaise ==
    /\ zpc = "iterating"
    /\ NextPos # 0
    /\ LET key == chain(dicts)[NextPos]
       IN  /\ \E j \in 1..Len(dicts) : ~HasKey(dicts[j], key)
           /\ zseen' = zseen \cup {key}
    /\ chain_pos' = NextPos
    /\ zpc' = "raised"
    /\ UNCHANGED <<dicts, yielded, notZip>>

\* line 243: the keys are exhausted
ZipStop ==
    /\ zpc = "iterating"
    /\ NextPos = 0
    /\ zpc' = "exhausted"
    /\ UNCHANGED <<dicts, chain_pos, zseen, yielded, notZip>>

NextZip == ZipYield \/ ZipRaise \/ ZipStop

SpecZip == InitZip /\ [][NextZip]_vars

SameKeySets == \A i, j \in 1..Len(dicts) : KeySetOf(dicts[i]) = KeySetOf(dicts[j])

\* what zip_dict yields over mappings with the same key set: the keys in
\* the order of the first mapping, each with its values in argument order
ExpectedItems ==
    IF Len(dicts) = 0 THEN <<>>
    ELSE [i \in 1..Len(dicts[1]) |->
            <<dicts[1][i][1], [j \in 1..Len(dicts) |-> 10 * j + dicts[1][i][1]]>>]

\* C12: iterated to the end, zip_dict raises exactly when the key sets of
\* the mappings differ; over the same key set it yields every key once, in
\* order of first appearance, with the tuple of its values in argument
\* order; no key is ever yielded twice
C12_ZipDictKeys ==
    /\ (zpc \in {"exhausted", "raised"}) => ((zpc = "raised") <=> ~SameKeySets)
    /\ (zpc = "exhausted") => yielded = ExpectedItems
    /\ \A i, j \in 1..Len(yielded) : yielded[i][1] = yielded[j][1] => i = j
    /\ \A i \in 1..Len(yielded) : yielded[i] = ExpectedItems[i]

\* two mappings with the same keys in different orders were zipped to the
\* end
C12_Witness ==
    /\ zpc = "exhausted"
    /\ Len(dicts) = 2
    /\ Len(yielded) >= 2
    /\ KeysOf(dicts[1]) # KeysOf(dicts[2])

\* ---------------------------------------------------------------------
\* SpecFlat: NestedDataStructure(data).flatten()
\* ---------------------------------------------------------------------
\* nested values of dicts, lists, tuples, ints and None
RECURSIVE IsNestedValue(_)
IsNestedValue(v) ==
    /\ v.kind \in {"dict", "list", "tuple", "int", "None"}
    /\ \A i \in 1..Len(v.items) : IsNestedValue(v.items[i])

FlatStructs == {v \in DataStructs : IsNestedValue(v)}

\* lines 396-397
NestedDataStructure(d) == IF d.kind # "None" THEN d ELSE List(<<>>)

\* lines 399-406: self.flatten(arg), the call being the depth-th one on
\* the stack
RECURSIVE flatten(_, _, _)
flatten(self, arg, depth) ==
    IF depth > RecursionLimit THEN Raise("RecursionError")
    ELSE LET d == IF arg.kind # "None" THEN arg ELSE self
         IN  IF d.kind = "dict"
             THEN flatten(self, List(d.items), depth + 1)
             ELSE IF d.kind \in {"list", "tuple"}
             THEN LET rs == [i \in 1..Len(d.items) |-> flatten(self, d.items[i], depth + 1)]
                  IN  IF \E i \in 1..Len(rs) : rs[i].kind = "RecursionError"
                      THEN Raise("RecursionError")
                      ELSE List(Concat([i \in 1..Len(rs) |-> rs[i].items]))
             ELSE List(<<d>>)

InitFlat ==
    /\ IdleBut("flat")
    /\ ctor_data \in FlatStructs
    /\ self_data = Unset
    /\ flat_result = Unset
    /\ fpc = "new"

\* lines 396-397
Construct ==
    /\ fpc = "new"
    /\ self_data' = NestedDataStructure(ctor_data)
    /\ fpc' = "constructed"
    /\ UNCHANGED <<ctor_data, flat_result, notFlat>>

\* flatten() returns a list
FlattenReturn ==
    /\ fpc = "constructed"
    /\ flatten(self_data, NoneV, 1).kind = "list"
    /\ flat_result' = flatten(self_data, NoneV, 1)
    /\ fpc' = "returned"
    /\ UNCHANGED <<ctor_data, self_data, notFlat>>

\* flatten() exceeds the recursion limit
FlattenRaise ==
    /\ fpc = "constructed"
    /\ flatten(self_data, NoneV, 1).kind = "RecursionError"
    /\ flat_result' = Raise("RecursionError")
    /\ fpc' = "raised"
    /\ UNCHANGED <<ctor_data, self_data, notFlat>>

NextFlat == Construct \/ FlattenReturn \/ FlattenRaise

SpecFlat == InitFlat /\ [][NextFlat]_vars

\* the leaves of a nested value, depth first and left to right
RECURSIVE LeavesOf(_)
LeavesOf(v) ==
    IF v.kind \in {"dict", "list", "tuple"}
    THEN Concat([i \in 1..Len(v.items) |-> LeavesOf(v.items[i])])
    ELSE <<v>>

\* C13: flatten of a nested value of dicts, lists, tuples, ints and None
\* terminates and returns its leaves depth first, left to right, one entry
\* per leaf
C13_FlattenLeaves ==
    /\ fpc # "raised"
    /\ (fpc = "returned") => flat_result = List(LeavesOf(ctor_data))

\* ---------------------------------------------------------------------
\* SpecNmd: a NonMutableDict under item assignments and update calls.
\* The dict is the set of its <<key, value>> items.
\* ---------------------------------------------------------------------
NmdKeys == 1..MaxNmdKeys

NmdValues == 1..2

NmdItems == NmdKeys \X NmdValues

\* the dicts over the keys and values
Mappings == {m \in SUBSET NmdItems : \A p, q \in m : p[1] = q[1] => p = q}

\* the iterables of (key, value) pairs
PairLists == UNION {[1..n -> NmdItems] : n \in 1..MaxPairs}

DictKeys(d) == {p[1] : p \in d}

\* dict.__setitem__
dict_setitem(d, key, value) == {p \in d : p[1] # key} \cup {<<key, value>>}

\* dict.update with an iterable of pairs: the pairs are set in turn
RECURSIVE dict_update_pairs(_, _)
dict_update_pairs(d, ps) ==
    IF ps = <<>> THEN d
    ELSE dict_update_pairs(dict_setitem(d, Head(ps)[1], Head(ps)[2]), Tail(ps))

\* dict.update with a mapping
dict_update_mapping(d, other) == {p \in d : p[1] \notin DictKeys(other)} \cup other

\* lines 265-268
__setitem__(d, key, value) ==
    IF key \in DictKeys(d)
    THEN [raised |-> TRUE, d |-> d]
    ELSE [raised |-> FALSE, d |-> dict_setitem(d, key, value)]

\* lines 270-273, other a mapping: iterating it gives its keys
update_mapping(d, other) ==
    IF \E k \in DictKeys(other) : k \in DictKeys(d)
    THEN [raised |-> TRUE, d |-> d]
    ELSE [raised |-> FALSE, d |-> dict_update_mapping(d, other)]

\* k in self for a tuple k: the keys are ints, none equals a tuple
TupleInDict(d, k) == FALSE

\* lines 270-273, other an iterable of pairs: iterating it gives the
\* pairs, and a pair is not one of the keys
update_pairs(d, other) ==
    IF \E i \in 1..Len(other) : TupleInDict(d, other[i])
    THEN [raised |-> TRUE, d |-> d]
    ELSE [raised |-> FALSE, d |-> dict_update_pairs(d, other)]

\* the first value bound to each key, the keys of the bindings made
\* by the pairs ps included
RECURSIVE FirstBound(_, _)
FirstBound(fb, ps) ==
    IF ps = <<>> THEN fb
    ELSE FirstBound(IF Head(ps)[1] \in DictKeys(fb) THEN fb ELSE fb \cup {Head(ps)},
                    Tail(ps))

NoOp == [overwrite |-> FALSE, raised |-> FALSE, before |-> {}]

InitNmd ==
    /\ IdleBut("nmd")
    /\ nmd = {}
    /\ first_bound = {}
    /\ last_op = NoOp
    /\ nops = 0

\* self[key] = value
SetItem(key, value) ==
    /\ nops < MaxOps
    /\ nmd' = __setitem__(nmd, key, value).d
    /\ first_bound' = FirstBound(first_bound, <<<<key, value>>>>)
    /\ last_op' = [overwrite |-> key \in DictKeys(nmd),
                   raised |-> __setitem__(nmd, key, value).raised,
                   before |-> nmd]
    /\ nops' = nops + 1
    /\ UNCHANGED notNmd

SetItems == \E key \in NmdKeys, value \in NmdValues : SetItem(key, value)

\* self.update(other), other a dict
UpdateMapping(other) ==
    /\ nops < MaxOps
    /\ nmd' = update_mapping(nmd, other).d
    /\ first_bound' = IF update_mapping(nmd, other).raised THEN first_bound
                      ELSE first_bound \cup {p \in other : p[1] \notin DictKeys(first_bound)}
    /\ last_op' = [overwrite |-> DictKeys(other) \cap DictKeys(nmd) # {},
                   raised |-> update_mapping(nmd, other).raised,
                   before |-> nmd]
    /\ nops' = nops + 1
    /\ UNCHANGED notNmd

UpdateMappings == \E other \in Mappings : UpdateMapping(other)

\* self.update(other), other a list of (key, value) pairs
UpdatePairs(other) ==
    /\ nops < MaxOps
    /\ nmd' = update_pairs(nmd, other).d
    /\ first_bound' = IF update_pairs(nmd, other).raised THEN first_bound
                      ELSE FirstBound(first_bound, other)
    /\ last_op' = [overwrite |-> \E i \in 1..Len(other) : other[i][1] \in DictKeys(nmd),
                   raised |-> update_pairs(nmd, other).raised,
                   before |-> nmd]
    /\ nops' = nops + 1
    /\ UNCHANGED notNmd

UpdatePairLists == \E other \in PairLists : UpdatePairs(other)

NextNmd == SetItems \/ UpdateMappings \/ UpdatePairLists

SpecNmd == InitNmd /\ [][NextNmd]_vars

\* C14: after any item assignments and update calls, every key that is
\* present has the value first bound to it, and an operation that named
\* an existing key raised and left the dict as it was
C14_FirstBindingKept ==
    /\ \A p \in nmd : p \in first_bound
    /\ last_op.overwrite => (last_op.raised /\ nmd = last_op.before)

\* ---------------------------------------------------------------------
\* SpecFunc: save_function(pickler, obj), both versions, and the decoding
\* of what it wrote.  A mapping is [oid, keys]: oid names the dict object,
\* keys are its names in insertion order; the names are numbered in their
\* sorted order.
\* ---------------------------------------------------------------------
Names == 1..MaxNames

\* the number of the name "__name__"
NameKey == 1

KeyOrders ==
    UNION {{ks \in [1..n -> Names] : \A i, j \in 1..n : ks[i] = ks[j] => i = j} : n \in 0..MaxNames}

Mapping(oid, keys) == [oid |-> oid, keys |-> keys]

NoMapping == Mapping("none", <<>>)

KeySet(ks) == {ks[i] : i \in 1..Len(ks)}

\* sorted(globs.keys())
RECURSIVE SortedKeys(_)
SortedKeys(S) ==
    IF S = {} THEN <<>>
    ELSE LET m == CHOOSE x \in S : \A y \in S : x <= y
         IN  <<m>> \o SortedKeys(S \ {m})

\* lines 632 and 745: {k: globs[k] for k in sorted(globs.keys())}
SortGlobs(globs) == Mapping("sorted", SortedKeys(KeySet(globs.keys)))

\* obj.__globals__
Globals(f) == Mapping("globals", f.globals)

\* globalvars(obj, recurse=True, builtin=True)
globalvars(f) == Mapping("collected", f.collected)

\* {"__name__": obj.__module__}
NameOnly == Mapping("fresh", <<NameKey>>)

\* lines 617-649, dill < 0.3.5
save_function_old(f) ==
    LET globs == IF f.recurse
                 THEN (IF f.in_stack THEN Globals(f) ELSE globalvars(f))
                 ELSE Globals(f)
    IN  [ctor_globs |-> SortGlobs(globs), postproc |-> <<>>]

\* lines 695-775, dill >= 0.3.5
save_function_new(f) ==
    LET globs_copy == IF f.recurse THEN globalvars(f) ELSE Globals(f)
        globs == IF f.recurse THEN NameOnly
                 ELSE IF f.module_dict THEN globs_copy ELSE NameOnly
        step == [list |-> IF f.outer THEN "_postproc" ELSE "postproc_list",
                 dest |-> globs, source |-> globs_copy]
    IN  [ctor_globs |-> SortGlobs(globs),
         postproc |-> IF globs.oid # globs_copy.oid THEN <<step>> ELSE <<>>]

\* _create_function, then the deferred _setitems(dest, source) steps:
\* the names in the globals of the function
LoadedNames(ctor, deferred) ==
    KeySet(ctor.keys) \cup
    UNION {KeySet(deferred[i].source.keys) : i \in {j \in 1..Len(deferred) : deferred[j].dest.oid = ctor.oid}}

FuncInputs ==
    [version : {"old", "new"}, located : BOOLEAN, recurse : BOOLEAN, in_stack : BOOLEAN,
     module_dict : BOOLEAN, outer : BOOLEAN, collected : KeyOrders,
     globals : {ks \in KeyOrders : NameKey \in KeySet(ks)}]

InitFunc ==
    /\ IdleBut("func")
    /\ fn \in FuncInputs
    /\ ctor_globs = NoMapping
    /\ postproc = <<>>
    /\ loaded = {}
    /\ fnpc = "call"

\* F2: the function is saved by reference
SaveGlobal ==
    /\ fnpc = "call"
    /\ fn.located
    /\ fnpc' = "saved_global"
    /\ UNCHANGED <<fn, ctor_globs, postproc, loaded, notFunc>>

\* F1, dill < 0.3.5
SaveFunctionOld ==
    /\ fnpc = "call"
    /\ ~fn.located
    /\ fn.version = "old"
    /\ ctor_globs' = save_function_old(fn).ctor_globs
    /\ postproc' = save_function_old(fn).postproc
    /\ fnpc' = "saved"
    /\ UNCHANGED <<fn, loaded, notFunc>>

\* F1, dill >= 0.3.5
SaveFunctionNew ==
    /\ fnpc = "call"
    /\ ~fn.located
    /\ fn.version = "new"
    /\ ctor_globs' = save_function_new(fn).ctor_globs
    /\ postproc' = save_function_new(fn).postproc
    /\ fnpc' = "saved"
    /\ UNCHANGED <<fn, loaded, notFunc>>

\* the function is decoded
LoadFunction ==
    /\ fnpc = "saved"
    /\ loaded' = LoadedNames(ctor_globs, postproc)
    /\ fnpc' = "loaded"
    /\ UNCHANGED <<fn, ctor_globs, postproc, notFunc>>

NextFunc == SaveGlobal \/ SaveFunctionOld \/ SaveFunctionNew \/ LoadFunction

SpecFunc == InitFunc /\ [][NextFunc]_vars

IsSortedKeys(ks) == \A i, j \in 1..Len(ks) : i < j => ks[i] < ks[j]

\* C15: every mapping of globals in the encoding of a function saved by
\* value, the one given to the constructor and those of a deferred step,
\* has its names in sorted order
C15_AllGlobalsSorted ==
    (fnpc \in {"saved", "loaded"}) =>
        /\ IsSortedKeys(ctor_globs.keys)
        /\ \A i \in 1..Len(postproc) :
              /\ IsSortedKeys(postproc[i].dest.keys)
              /\ IsSortedKeys(postproc[i].source.keys)

\* C16: the mapping a deferred step populates is the mapping object given
\* to the constructor, and the decoded function has every name the step
\* sets
C16_DeferredStepFillsFunctionGlobals ==
    /\ (fnpc \in {"saved", "loaded"}) =>
          \A i \in 1..Len(postproc) : postproc[i].dest.oid = ctor_globs.oid
    /\ (fnpc = "loaded") =>
          \A i \in 1..Len(postproc) : KeySet(postproc[i].source.keys) \subseteq loaded

====
